---- MODULE Spec2Model ----
(***************************************************************************)
(* A model of src/main.py: the "users" table behind the FastAPI handlers   *)
(* create_user, update_user, delete_user, get_user and get_users.          *)
(*                                                                         *)
(* Spec      handles one request at a time: one action per handler, the    *)
(*           whole handler (query, flush, commit, refresh) in one step.    *)
(* SpecFinality is Spec without the list handler, recording in deleted the  *)
(*           user_ids a Delete removed and no Create restored.             *)
(* GET /users reaches a handler through Routes: the router serves the      *)
(*           first registered route that matches.                          *)
(* SpecConc  runs NumReq requests in worker threads; a handler is split at *)
(*           its storage statements (SELECT, flush+COMMIT, refresh SELECT, *)
(*           session close), which interleave freely.                      *)
(*                                                                         *)
(* Not modelled: storage faults other than constraint / stale-row errors   *)
(* (lock timeouts, I/O errors), request validation (422), CORS.            *)
(***************************************************************************)
EXTENDS Integers, Sequences, FiniteSets, TLC

VARIABLES
    table,      \* the rows of the users table (committed state)
    pre,        \* the table as the request being handled found it
    last,       \* Spec: the request just handled and its response
    deleted,    \* SpecFinality: the user_ids deleted and not created again since
    reqs        \* SpecConc: the requests in flight, one per worker thread

vars == <<table, pre, last, deleted, reqs>>

(* ------------------------------ bounds -------------------------------- *)

MaxUserId == 2
MaxAge == 2
NumReq == 2

UserIds == 1..MaxUserId
Ages == 0..MaxAge
Reqs == 1..NumReq

(* ------------------------------ values -------------------------------- *)

\* Python's None / an absent optional value; Some(x) is a present one.
None == <<>>
Some(x) == <<x>>

HTTP_OK == 200
HTTP_CONFLICT == 400
HTTP_NOT_FOUND == 404
HTTP_SERVER_ERROR == 500

Fields == {"user_id", "name", "age", "location", "gender", "preferences", "video_clip"}

\* The pydantic model User: a validated request or response body.
User(id, n, a, l, g, p, v) ==
    [user_id |-> id, name |-> n, age |-> a, location |-> l, gender |-> g,
     preferences |-> p, video_clip |-> v]

\* preferences is a dict, modelled as a set of <<key, value>> items.
BaseUser(id) == User(id, "Ann", 1, "NYC", "F", {}, "a.mp4")

\* Request bodies: per user_id, a base profile, one that differs from it in
\* name, preferences and video_clip, and those that differ in location, in
\* gender or in age alone.
Bodies ==
    UNION { {BaseUser(id),
             User(id, "Bob", 1, "NYC", "F", {<<"likes", "cats">>, <<"smoker", "no">>}, "b.mp4"),
             [BaseUser(id) EXCEPT !.location = ""],
             [BaseUser(id) EXCEPT !.gender = ""]}
            \cup {[BaseUser(id) EXCEPT !.age = a] : a \in Ages}
          : id \in UserIds }

(* ------------------------- the users table ---------------------------- *)

\* Column(JSON): the document is stored as its serialisation, a sequence of
\* items, and parsed back to a dict when a row is loaded.
RECURSIVE Dumps(_)
Dumps(doc) ==
    IF doc = {} THEN <<>>
    ELSE LET item == CHOOSE x \in doc : TRUE
         IN  <<item>> \o Dumps(doc \ {item})

Loads(text) == {text[i] : i \in DOMAIN text}

\* UserDB(**user.dict()) as the row the INSERT / UPDATE writes.
ToRow(user) == [user EXCEPT !.preferences = Dumps(@)]

\* A loaded UserDB object (what response_model=User serialises).
FromRow(row) == [row EXCEPT !.preferences = Loads(@)]

\* db.query(UserDB).filter(UserDB.user_id == id).first()
QueryFirst(t, id) ==
    LET hits == {i \in DOMAIN t : t[i].user_id = id}
    IN  IF hits = {} THEN None
        ELSE Some(FromRow(t[CHOOSE i \in hits : \A j \in hits : i <= j]))

\* user_id is an INTEGER PRIMARY KEY, which SQLite uses as the rowid: the
\* table is a sequence of rows in rowid order, the order a scan returns.
Place(t, row) ==
    SelectSeq(t, LAMBDA r : r.user_id <= row.user_id) \o <<row>>
        \o SelectSeq(t, LAMBDA r : r.user_id > row.user_id)

RECURSIVE RowidOrder(_)
RowidOrder(rows) ==
    IF rows = <<>> THEN <<>>
    ELSE Place(RowidOrder(SubSeq(rows, 1, Len(rows) - 1)), rows[Len(rows)])

\* INSERT INTO users: a second row with the same primary key is refused
\* (IntegrityError).
InsertRowNoPrimaryKey(t, row) == [ok |-> TRUE, table |-> Place(t, row)]

InsertRow(t, row) ==
    IF \E i \in DOMAIN t : t[i].user_id = row.user_id
    THEN [ok |-> FALSE, table |-> t]
    ELSE [ok |-> TRUE, table |-> Place(t, row)]

\* UPDATE users SET <cols> WHERE user_id = key.  The unit of work writes
\* only the columns in cols; no row matched is a StaleDataError, a new
\* user_id that another row holds is an IntegrityError.
UpdateRowNoPrimaryKey(t, key, cols, row) ==
    LET hits == {i \in DOMAIN t : t[i].user_id = key}
    IN  IF hits = {} THEN [outcome |-> "stale", table |-> t]
        ELSE [outcome |-> "ok",
              table |-> RowidOrder(
                  [i \in DOMAIN t |->
                     IF i \in hits
                     THEN [f \in Fields |-> IF f \in cols THEN row[f] ELSE t[i][f]]
                     ELSE t[i]])]

UpdateRowUpsert(t, key, cols, row) ==
    LET hits == {i \in DOMAIN t : t[i].user_id = key}
    IN  [outcome |-> "ok",
         table |-> IF hits = {} THEN Place(t, row)
                   ELSE RowidOrder(
                       [i \in DOMAIN t |->
                          IF i \in hits
                          THEN [f \in Fields |-> IF f \in cols THEN row[f] ELSE t[i][f]]
                          ELSE t[i]])]

UpdateRow(t, key, cols, row) ==
    LET hits == {i \in DOMAIN t : t[i].user_id = key}
    IN  IF hits = {} THEN [outcome |-> "stale", table |-> t]
        ELSE IF /\ "user_id" \in cols
                /\ \E j \in DOMAIN t \ hits : t[j].user_id = row.user_id
        THEN [outcome |-> "integrity", table |-> t]
        ELSE [outcome |-> "ok",
              table |-> RowidOrder(
                  [i \in DOMAIN t |->
                     IF i \in hits
                     THEN [f \in Fields |-> IF f \in cols THEN row[f] ELSE t[i][f]]
                     ELSE t[i]])]

\* DELETE FROM users WHERE user_id = key (no row matched is only a warning).
DeleteRowNoWhere(t, key) == <<>>

DeleteRow(t, key) == SelectSeq(t, LAMBDA r : r.user_id # key)

(* ----------------------------- handlers ------------------------------- *)

\* What a handler leaves behind: the table, and the HTTP response.
Reply(t, status, detail, body) ==
    [table |-> t, status |-> status, detail |-> detail, body |-> body]

\* An exception other than HTTPException: get_db closes the session, the
\* open transaction is rolled back, the client sees a 500.
Fault(t) == Reply(t, HTTP_SERVER_ERROR, "Internal Server Error", <<>>)

NotFound(t) == Reply(t, HTTP_NOT_FOUND, "User not found", <<>>)

\* db.refresh(obj); return obj: the row is read back by its primary key.
Refreshed(t, id) ==
    LET fresh == QueryFirst(t, id)
    IN  IF fresh = None THEN Fault(t) ELSE Reply(t, HTTP_OK, "", fresh)

\* The columns the flush of update_user writes: setattr on every key of
\* updated_user.dict(), of which only the values that differ from the
\* loaded ones have a net change.
ChangedCols(loaded, updated_user) == {f \in Fields : updated_user[f] # loaded[f]}

\* db.add(db_user); db.commit() of create_user.
CreateCommitNotPersisted(t, user) == [ok |-> TRUE, table |-> t]

CreateCommit(t, user) == InsertRow(t, ToRow(user))

\* the setattr loop and db.commit() of update_user.
UpdateCommit(t, loaded, updated_user) ==
    LET cols == ChangedCols(loaded, updated_user)
    IN  IF cols = {} THEN [outcome |-> "ok", table |-> t]
        ELSE UpdateRow(t, loaded.user_id, cols, ToRow(updated_user))

\* db.delete(db_user); db.commit() of delete_user.
DeleteCommit(t, loaded) == DeleteRow(t, loaded.user_id)

get_user_consuming(t, user_id) ==
    LET user == QueryFirst(t, user_id)
    IN  IF user # None THEN Reply(DeleteRow(t, user_id), HTTP_OK, "", user) ELSE NotFound(t)

get_user(t, user_id) ==
    LET user == QueryFirst(t, user_id)
    IN  IF user # None THEN Reply(t, HTTP_OK, "", user) ELSE NotFound(t)

create_user_overwrite(t, user) ==
    LET kept == SelectSeq(t, LAMBDA r : r.user_id # user.user_id)
    IN  Reply(Place(kept, ToRow(user)), HTTP_OK, "", Some(user))

create_user(t, user) ==
    LET db_user == QueryFirst(t, user.user_id)
    IN  IF db_user # None
        THEN Reply(t, HTTP_CONFLICT, "User with this ID already exists", <<>>)
        ELSE LET ins == CreateCommit(t, user)
             IN  IF ~ins.ok THEN Fault(t) ELSE Refreshed(ins.table, user.user_id)

update_user_upsert(t, user_id, updated_user) ==
    LET kept == SelectSeq(t, LAMBDA r : r.user_id # user_id)
    IN  Reply(Place(kept, ToRow(updated_user)), HTTP_OK, "", Some(updated_user))

update_user(t, user_id, updated_user) ==
    LET db_user == QueryFirst(t, user_id)
    IN  IF db_user = None THEN NotFound(t)
        ELSE LET upd == UpdateCommit(t, db_user[1], updated_user)
             IN  IF upd.outcome # "ok" THEN Fault(t)
                 ELSE Refreshed(upd.table, updated_user.user_id)

delete_user(t, user_id) ==
    LET db_user == QueryFirst(t, user_id)
    IN  IF db_user = None THEN NotFound(t)
        ELSE Reply(DeleteCommit(t, db_user[1]), HTTP_OK, "deleted successfully", <<>>)

\* Python truthiness of an optional str / int query parameter.
TruthyStr(p) == p # None /\ p[1] # ""
TruthyInt(p) == p # None /\ p[1] # 0

\* The WHERE clause get_users builds from its four optional parameters.
MatchesExclusive(u, location, min_age, max_age, gender) ==
    /\ TruthyStr(location) => u.location = location[1]
    /\ TruthyInt(min_age) => u.age > min_age[1]
    /\ TruthyInt(max_age) => u.age < max_age[1]
    /\ TruthyStr(gender) => u.gender = gender[1]

Matches(u, location, min_age, max_age, gender) ==
    /\ TruthyStr(location) => u.location = location[1]
    /\ TruthyInt(min_age) => u.age >= min_age[1]
    /\ TruthyInt(max_age) => u.age <= max_age[1]
    /\ TruthyStr(gender) => u.gender = gender[1]

\* query.all(): the loaded rows, in table order.
QueryAll(t) == [i \in DOMAIN t |-> FromRow(t[i])]

\* get_users as defined at lines 156-176 (the filter-accepting handler).
get_users(t, location, min_age, max_age, gender) ==
    Reply(t, HTTP_OK, "",
          SelectSeq(QueryAll(t), LAMBDA u : Matches(u, location, min_age, max_age, gender)))

\* get_users as defined at lines 85-87 (no parameters).
get_users_all(t) == Reply(t, HTTP_OK, "", QueryAll(t))

\* The routes, in the order the decorators register them on app.
Routes ==
    << [method |-> "GET", path |-> "/", handler |-> "read_root"],
       [method |-> "GET", path |-> "/users", handler |-> "get_users (line 86)"],
       [method |-> "GET", path |-> "/users/{user_id}", handler |-> "get_user"],
       [method |-> "POST", path |-> "/users", handler |-> "create_user"],
       [method |-> "PUT", path |-> "/users/{user_id}", handler |-> "update_user"],
       [method |-> "DELETE", path |-> "/users/{user_id}", handler |-> "delete_user (line 133)"],
       [method |-> "DELETE", path |-> "/users/{user_id}", handler |-> "delete_user (line 145)"],
       [method |-> "GET", path |-> "/users", handler |-> "get_users (line 157)"] >>

\* The router hands a request to the first route, in that order, whose method
\* and path match it.
RouteFor(method, path) ==
    LET hits == {i \in DOMAIN Routes : Routes[i].method = method /\ Routes[i].path = path}
    IN  Routes[CHOOSE i \in hits : \A j \in hits : i <= j].handler

\* GET /users with its query string, as the application serves it.
ListUsers(t, location, min_age, max_age, gender) ==
    IF RouteFor("GET", "/users") = "get_users (line 157)"
    THEN get_users(t, location, min_age, max_age, gender)
    ELSE get_users_all(t)

(* --------------------- Spec: one request at a time -------------------- *)

\* Query parameter values of GET /users.
OptLocations == {None, Some(""), Some("NYC")}
OptGenders == {None, Some(""), Some("F")}
OptAges == {None} \cup {Some(a) : a \in Ages}

NoParams == [location |-> None, min_age |-> None, max_age |-> None, gender |-> None]

\* The request last handled and its response.
Handled(op, id, user, params, r) ==
    [op |-> op, id |-> id, user |-> user, params |-> params,
     status |-> r.status, detail |-> r.detail, body |-> r.body]

NoRequest ==
    [op |-> "none", id |-> 0, user |-> None, params |-> NoParams,
     status |-> 0, detail |-> "", body |-> <<>>]

IdleReq ==
    [pc |-> "idle", op |-> "none", id |-> 0, user |-> None, loaded |-> None,
     session |-> "none", status |-> 0, detail |-> "", body |-> <<>>]

Init ==
    /\ table = <<>>
    /\ pre = <<>>
    /\ last = NoRequest
    /\ deleted = {}
    /\ reqs = [r \in Reqs |-> IdleReq]

\* One request, handled from the session's opening to its close: the server
\* takes it when no response is pending; pre keeps the table it found.
Serve(op, id, user, params, r) ==
    /\ last = NoRequest
    /\ pre' = table
    /\ table' = r.table
    /\ last' = Handled(op, id, user, params, r)
    /\ UNCHANGED reqs

CreateUser ==
    \E user \in Bodies :
        Serve("create", user.user_id, Some(user), NoParams, create_user(table, user))

UpdateUser ==
    \E user_id \in UserIds, user \in Bodies :
        Serve("update", user_id, Some(user), NoParams, update_user(table, user_id, user))

DeleteUser ==
    \E user_id \in UserIds :
        Serve("delete", user_id, None, NoParams, delete_user(table, user_id))

GetUser ==
    \E user_id \in UserIds :
        Serve("get", user_id, None, NoParams, get_user(table, user_id))

\* The filter-accepting handler get_users (lines 156-176) applied to its
\* four parameters.
GetUsersFiltered ==
    \E l \in OptLocations, lo \in OptAges, hi \in OptAges, g \in OptGenders :
        Serve("list", 0, None,
              [location |-> l, min_age |-> lo, max_age |-> hi, gender |-> g],
              get_users(table, l, lo, hi, g))

\* A GET /users request, dispatched by the router.
GetUsers ==
    \E l \in OptLocations, lo \in OptAges, hi \in OptAges, g \in OptGenders :
        Serve("GET /users", 0, None,
              [location |-> l, min_age |-> lo, max_age |-> hi, gender |-> g],
              ListUsers(table, l, lo, hi, g))

\* The response is sent; the handler keeps nothing between requests.
Respond ==
    /\ last # NoRequest
    /\ last' = NoRequest
    /\ pre' = table
    /\ UNCHANGED <<table, reqs>>

Next ==
    \/ CreateUser /\ UNCHANGED deleted
    \/ UpdateUser /\ UNCHANGED deleted
    \/ DeleteUser /\ UNCHANGED deleted
    \/ GetUser /\ UNCHANGED deleted
    \/ GetUsersFiltered /\ UNCHANGED deleted
    \/ GetUsers /\ UNCHANGED deleted
    \/ Respond /\ UNCHANGED deleted

Spec == Init /\ [][Next]_vars

(* ------- SpecFinality: Spec's requests, with the deletions recorded ---- *)

\* A successful Delete(id) puts id in deleted, a successful Create(id) takes
\* it out; nothing else changes deleted.
Track ==
    deleted' = IF last'.op = "delete" /\ last'.status = HTTP_OK
               THEN deleted \cup {last'.id}
               ELSE IF last'.op = "create" /\ last'.status = HTTP_OK
               THEN deleted \ {last'.id}
               ELSE deleted

NextFinality ==
    \/ CreateUser /\ Track
    \/ UpdateUser /\ Track
    \/ DeleteUser /\ Track
    \/ GetUser /\ Track
    \/ Respond /\ Track

SpecFinality == Init /\ [][NextFinality]_vars

(* ------------------ SpecConc: requests in worker threads -------------- *)

\* The bodies and the path ids the concurrent requests carry: for user_id 1
\* the base profile and two that differ from it in disjoint fields, and one
\* body with user_id 2.
RaceBodies ==
    {BaseUser(1),
     User(1, "Bob", 1, "NYC", "F", {<<"likes", "cats">>, <<"smoker", "no">>}, "b.mp4"),
     [BaseUser(1) EXCEPT !.age = 0],
     [BaseUser(2) EXCEPT !.age = 0]}

RaceIds == {u.user_id : u \in RaceBodies}

InitConc ==
    /\ table \in {<<>>, <<ToRow(BaseUser(1))>>}
    /\ pre = table
    /\ last = NoRequest
    /\ deleted = {}
    /\ reqs = [r \in Reqs |-> IdleReq]

\* The handler returns or raises: the response is fixed, the session of
\* get_db is still open.
ExitWithoutFinally(r, reply) ==
    reqs' = [reqs EXCEPT ![r].pc = IF reply.status = HTTP_OK THEN "close" ELSE "done",
                         ![r].status = reply.status,
                         ![r].detail = reply.detail, ![r].body = reply.body]

Exit(r, reply) ==
    reqs' = [reqs EXCEPT ![r].pc = "close", ![r].status = reply.status,
                         ![r].detail = reply.detail, ![r].body = reply.body]

\* A request arrives: get_db opens its session (db = SessionLocal()).
Start(r) ==
    /\ reqs[r].pc = "idle"
    /\ \E op \in {"create", "update", "delete", "get", "list"}, id \in RaceIds,
          user \in RaceBodies :
          /\ op = "create" => id = user.user_id
          /\ op \in {"delete", "get", "list"} => user = BaseUser(id)
          /\ reqs' = [reqs EXCEPT ![r].pc = "query", ![r].op = op, ![r].id = id,
                                  ![r].user = IF op \in {"create", "update"}
                                              THEN Some(user) ELSE None,
                                  ![r].session = "open"]
    /\ UNCHANGED <<table, pre, last, deleted>>

\* get_user: the SELECT and the response.
GetQuery(r) ==
    /\ reqs[r].pc = "query" /\ reqs[r].op = "get"
    /\ Exit(r, get_user(table, reqs[r].id))
    /\ UNCHANGED <<table, pre, last, deleted>>

\* GET /users without a query string: the SELECT and the response.
ListQuery(r) ==
    /\ reqs[r].pc = "query" /\ reqs[r].op = "list"
    /\ Exit(r, ListUsers(table, None, None, None, None))
    /\ UNCHANGED <<table, pre, last, deleted>>

\* create_user, lines 103-105: the existence check.
CreateQuery(r) ==
    /\ reqs[r].pc = "query" /\ reqs[r].op = "create"
    /\ IF QueryFirst(table, reqs[r].id) # None
       THEN Exit(r, Reply(table, HTTP_CONFLICT, "User with this ID already exists", <<>>))
       ELSE reqs' = [reqs EXCEPT ![r].pc = "commit"]
    /\ UNCHANGED <<table, pre, last, deleted>>

\* create_user, lines 108-110: the INSERT and the COMMIT.
CreateFlush(r) ==
    /\ reqs[r].pc = "commit" /\ reqs[r].op = "create"
    /\ LET ins == CreateCommit(table, reqs[r].user[1])
       IN  IF ins.ok
           THEN /\ table' = ins.table
                /\ reqs' = [reqs EXCEPT ![r].pc = "refresh"]
           ELSE /\ table' = table
                /\ Exit(r, Fault(table))
    /\ UNCHANGED <<pre, last, deleted>>

\* The SELECT of the record by the path id, and the 404 when there is none.
Load(r) ==
    LET db_user == QueryFirst(table, reqs[r].id)
    IN  IF db_user = None
        THEN Exit(r, NotFound(table))
        ELSE reqs' = [reqs EXCEPT ![r].pc = "commit", ![r].loaded = db_user]

\* update_user, lines 118-120.
UpdateQuery(r) ==
    /\ reqs[r].pc = "query" /\ reqs[r].op = "update"
    /\ Load(r)
    /\ UNCHANGED <<table, pre, last, deleted>>

\* delete_user, lines 147-149 (and the same text at 135-137).
DeleteQuery(r) ==
    /\ reqs[r].pc = "query" /\ reqs[r].op = "delete"
    /\ Load(r)
    /\ UNCHANGED <<table, pre, last, deleted>>

\* update_user, lines 123-127: the setattr loop, the UPDATE and the COMMIT.
UpdateFlush(r) ==
    /\ reqs[r].pc = "commit" /\ reqs[r].op = "update"
    /\ LET upd == UpdateCommit(table, reqs[r].loaded[1], reqs[r].user[1])
       IN  IF upd.outcome = "ok"
           THEN /\ table' = upd.table
                /\ reqs' = [reqs EXCEPT ![r].pc = "refresh"]
           ELSE /\ table' = table
                /\ Exit(r, Fault(table))
    /\ UNCHANGED <<pre, last, deleted>>

\* delete_user, lines 152-154 (and 140-142): the DELETE, the COMMIT and the
\* response.
DeleteFlush(r) ==
    /\ reqs[r].pc = "commit" /\ reqs[r].op = "delete"
    /\ table' = DeleteCommit(table, reqs[r].loaded[1])
    /\ Exit(r, Reply(table', HTTP_OK, "deleted successfully", <<>>))
    /\ UNCHANGED <<pre, last, deleted>>

\* db.refresh(db_user); return db_user of create_user and update_user.
Refresh(r) ==
    /\ reqs[r].pc = "refresh"
    /\ Exit(r, Refreshed(table, reqs[r].user[1].user_id))
    /\ UNCHANGED <<table, pre, last, deleted>>

\* get_db's finally: db.close().
Close(r) ==
    /\ reqs[r].pc = "close"
    /\ reqs' = [reqs EXCEPT ![r].pc = "done", ![r].session = "closed"]
    /\ UNCHANGED <<table, pre, last, deleted>>

NextConc ==
    \E r \in Reqs :
        \/ Start(r)
        \/ GetQuery(r)
        \/ ListQuery(r)
        \/ CreateQuery(r)
        \/ CreateFlush(r)
        \/ UpdateQuery(r)
        \/ DeleteQuery(r)
        \/ UpdateFlush(r)
        \/ DeleteFlush(r)
        \/ Refresh(r)
        \/ Close(r)

SpecConc == InitConc /\ [][NextConc]_vars

(* ------------------------ properties of Spec -------------------------- *)

UserIdsOf(t) == {t[i].user_id : i \in DOMAIN t}

Absent(t, id) == QueryFirst(t, id) = None

UniquePerUserId(t) == \A i, j \in DOMAIN t : t[i].user_id = t[j].user_id => i = j

Range(seq) == {seq[i] : i \in DOMAIN seq}

RowsAt(t, id) == {i \in DOMAIN t : t[i].user_id = id}

\* C1: the store never holds two records with one user_id, and a Create whose
\* user_id is already present answers 400 "User with this ID already exists"
\* and leaves the store, the existing record included, as it found it.
C1_Uniqueness ==
    /\ UniquePerUserId(table)
    /\ (last.op = "create" /\ ~Absent(pre, last.id)) =>
           /\ last.status = HTTP_CONFLICT
           /\ last.detail = "User with this ID already exists"
           /\ QueryFirst(table, last.id) = QueryFirst(pre, last.id)
           /\ table = pre

\* A Create was refused for a body that differs from the stored record.
C1_Witness ==
    /\ last.op = "create"
    /\ last.status = HTTP_CONFLICT
    /\ QueryFirst(pre, last.id) # last.user

\* C2: a Create of a record whose user_id is absent succeeds, and GetByID of
\* that user_id right after it returns the record, equal in all seven fields.
C2_RoundTrip ==
    (last.op = "create" /\ Absent(pre, last.id)) =>
        /\ last.status = HTTP_OK
        /\ last.body = last.user
        /\ get_user(table, last.id).status = HTTP_OK
        /\ get_user(table, last.id).body = last.user
        /\ \A f \in Fields : get_user(table, last.id).body[1][f] = last.user[1][f]

\* A record with a non-empty preferences document was created and read back.
C2_Witness ==
    /\ last.op = "create"
    /\ last.status = HTTP_OK
    /\ last.user[1].preferences # {}
    /\ pre # <<>>
    /\ get_user(table, last.id).body = last.user

\* C3: after a successful Replace(id, r2), for any full record r2, GetByID(id)
\* returns exactly r2.
C3_ReplaceSemantics ==
    (last.op = "update" /\ last.status = HTTP_OK) =>
        /\ get_user(table, last.id).status = HTTP_OK
        /\ get_user(table, last.id).body = last.user

\* C4: a Replace never changes which user_ids are present in the store.
C4_UserIdImmutable ==
    last.op = "update" => UserIdsOf(table) = UserIdsOf(pre)

\* C5 (under SpecFinality): once Delete(id) has succeeded, and until a Create
\* of that id, GetByID(id) and Delete(id) answer 404.
C5_DeleteFinality ==
    \A id \in deleted :
        /\ get_user(table, id).status = HTTP_NOT_FOUND
        /\ delete_user(table, id).status = HTTP_NOT_FOUND

\* The predicates a request supplies, each taken as supplied whatever its value.
SuppliedMatch(u, params) ==
    /\ params.location # None => u.location = params.location[1]
    /\ params.min_age # None => u.age >= params.min_age[1]
    /\ params.max_age # None => u.age <= params.max_age[1]
    /\ params.gender # None => u.gender = params.gender[1]

\* C6: the filter-accepting get_users returns exactly the stored records that
\* satisfy every supplied predicate, and with none supplied what GetAll returns.
C6_FilterConjunction ==
    last.op = "list" =>
        /\ last.status = HTTP_OK
        /\ Range(last.body) = {u \in Range(QueryAll(table)) : SuppliedMatch(u, last.params)}
        /\ last.params = NoParams => last.body = get_users_all(table).body

\* C7: a stored record whose age equals the supplied min_age or the supplied
\* max_age, and which satisfies the other supplied predicates, is returned.
C7_InclusiveBounds ==
    last.op = "list" =>
        \A u \in Range(QueryAll(table)) :
            (/\ SuppliedMatch(u, last.params)
             /\ \/ last.params.min_age = Some(u.age)
                \/ last.params.max_age = Some(u.age))
                => u \in Range(last.body)

\* A list request with min_age = max_age = a > 0 returned the record of that
\* age and left another stored record out.
C7_Witness ==
    /\ last.op = "list"
    /\ last.params.min_age # None
    /\ last.params.min_age = last.params.max_age
    /\ last.params.min_age[1] > 0
    /\ \E u \in Range(last.body) : u.age = last.params.min_age[1]
    /\ Len(last.body) < Len(table)

\* C10: Replace and Delete of an id with no record answer 404 "User not found"
\* and leave the whole store as it was; Replace creates nothing.
C10_NotFoundOnAbsent ==
    (last.op \in {"update", "delete"} /\ Absent(pre, last.id)) =>
        /\ last.status = HTTP_NOT_FOUND
        /\ last.detail = "User not found"
        /\ table = pre
        /\ Absent(table, last.id)

\* A Replace of an absent id was refused while the store held another record.
C10_Witness ==
    /\ last.op = "update"
    /\ last.status = HTTP_NOT_FOUND
    /\ table # <<>>
    /\ table = pre

\* C11: get_users and get_user, answering 200 or 404, leave every stored
\* record and the set of stored user_ids as they found them.
C11_ReadsArePure ==
    last.op \in {"get", "list", "GET /users"} =>
        /\ table = pre
        /\ UserIdsOf(table) = UserIdsOf(pre)
        /\ \A id \in UserIds : QueryFirst(table, id) = QueryFirst(pre, id)

\* A GetByID found its record in a store of two, and both are still there.
C11_Witness ==
    /\ last.op = "get"
    /\ last.status = HTTP_OK
    /\ Len(pre) = 2
    /\ table = pre

C14_RouteDispatch ==
    last.op = "GET /users" =>
        last.body = get_users(table, last.params.location, last.params.min_age,
                              last.params.max_age, last.params.gender).body

\* C15: in the filter-accepting get_users every supplied predicate, a 0 or an
\* empty string included, constrains the result, and only the supplied ones do.
C15_SuppliedVersusOmitted ==
    last.op = "list" =>
        /\ \A u \in Range(last.body) :
              /\ last.params.location # None => u.location = last.params.location[1]
              /\ last.params.gender # None => u.gender = last.params.gender[1]
              /\ last.params.min_age # None => u.age >= last.params.min_age[1]
              /\ last.params.max_age # None => u.age <= last.params.max_age[1]
        /\ \A u \in Range(QueryAll(table)) :
              SuppliedMatch(u, last.params) => u \in Range(last.body)

\* C16: a Replace(id, r) with id present, r.user_id different from id and
\* r.user_id the key of another stored record leaves both records, and the
\* store, as they were.
C16_CollidingBodyKey ==
    (/\ last.op = "update"
     /\ ~Absent(pre, last.id)
     /\ last.user[1].user_id # last.id
     /\ ~Absent(pre, last.user[1].user_id)) =>
        /\ QueryFirst(table, last.id) = QueryFirst(pre, last.id)
        /\ QueryFirst(table, last.user[1].user_id) = QueryFirst(pre, last.user[1].user_id)
        /\ Cardinality(RowsAt(table, last.id)) = 1
        /\ Cardinality(RowsAt(table, last.user[1].user_id)) = 1
        /\ table = pre

\* Such a Replace was refused with a 500 and the two records differ.
C16_Witness ==
    /\ last.op = "update"
    /\ last.user[1].user_id # last.id
    /\ ~Absent(pre, last.id)
    /\ ~Absent(pre, last.user[1].user_id)
    /\ last.status = HTTP_SERVER_ERROR
    /\ Len(table) = 2
    /\ [table[1] EXCEPT !.user_id = 0] # [table[2] EXCEPT !.user_id = 0]

(* ---------------------- properties of SpecConc ------------------------ *)

Started == {r \in Reqs : reqs[r].pc # "idle"}

\* The response of request r is fixed.
Answered(r) == reqs[r].pc \in {"close", "done"}

CreatesOf(id) == {r \in Started : reqs[r].op = "create" /\ reqs[r].id = id}

Winners(id) == {r \in CreatesOf(id) : Answered(r) /\ reqs[r].status = HTTP_OK}

RowsOf(t, id) == {i \in DOMAIN t : t[i].user_id = id}

\* C8: when the requests in flight are create_user requests for one user_id,
\* at most one of them succeeds, the store never holds two rows of that
\* user_id, the row is the winner's, and once all have answered there is
\* exactly one row (the store as found when nobody won).
C8_OneWinner ==
    \A id \in RaceIds :
        (Started # {} /\ Started = CreatesOf(id)) =>
            /\ Cardinality(Winners(id)) <= 1
            /\ Cardinality(RowsOf(table, id)) <= 1
            /\ \A w \in Winners(id) : QueryFirst(table, id) = reqs[w].user
            /\ (Cardinality(Started) >= 2 /\ \A r \in Started : Answered(r)) =>
                   /\ Cardinality(RowsOf(table, id)) = 1
                   /\ Winners(id) = {} => table = pre

\* Two creates of one user_id with different bodies both passed the existence
\* check; one was answered 200 and its record is the stored one.
C8_Witness ==
    \E w, l \in Reqs :
        /\ reqs[w].op = "create" /\ reqs[l].op = "create"
        /\ reqs[w].id = reqs[l].id
        /\ reqs[w].user # reqs[l].user
        /\ Answered(w) /\ reqs[w].status = HTTP_OK
        /\ Answered(l) /\ reqs[l].status = HTTP_SERVER_ERROR
        /\ table = <<ToRow(reqs[w].user[1])>>

\* C9: of create_user requests for one user_id, every one that does not win
\* is answered 400 "User with this ID already exists".
C9_LoserSeesConflict ==
    \A id \in RaceIds :
        (Started # {} /\ Started = CreatesOf(id)) =>
            \A r \in CreatesOf(id) :
                (Answered(r) /\ reqs[r].status # HTTP_OK) =>
                    /\ reqs[r].status = HTTP_CONFLICT
                    /\ reqs[r].detail = "User with this ID already exists"

\* C12: a request holds no session before it starts, one open session while
\* its handler runs and until get_db's finally, and none open once it has
\* completed, whatever the handler's outcome (200, 400, 404 or a fault).
C12_ScopedSession ==
    \A r \in Reqs :
        /\ reqs[r].pc = "idle" => reqs[r].session = "none"
        /\ reqs[r].pc \in {"query", "commit", "refresh", "close"} => reqs[r].session = "open"
        /\ reqs[r].pc = "done" => reqs[r].session = "closed"

\* A request whose commit raised has completed with its session closed, and
\* so has one answered 200.
C12_Witness ==
    \E r, q \in Reqs :
        /\ reqs[r].pc = "done" /\ reqs[r].status = HTTP_SERVER_ERROR
        /\ reqs[r].session = "closed"
        /\ reqs[q].pc = "done" /\ reqs[q].status = HTTP_OK
        /\ reqs[q].session = "closed"

\* C17: when an update_user and a delete_user of one id are the requests in
\* flight and the Delete was answered 200, then, both answered, the store
\* holds no record of that id.
C17_NoResurrection ==
    \A u, d \in Reqs :
        (/\ Started = {u, d}
         /\ reqs[u].op = "update" /\ reqs[d].op = "delete"
         /\ reqs[u].id = reqs[d].id
         /\ Answered(u) /\ Answered(d)
         /\ reqs[d].status = HTTP_OK) =>
            Absent(table, reqs[d].id)

\* Both had read the record before either committed; the Delete was answered
\* 200 and the record is gone.
C17_Witness ==
    \E u, d \in Reqs :
        /\ Started = {u, d}
        /\ reqs[u].op = "update" /\ reqs[d].op = "delete"
        /\ reqs[u].id = reqs[d].id
        /\ reqs[u].loaded # None /\ reqs[d].loaded # None
        /\ Answered(u) /\ Answered(d)
        /\ reqs[d].status = HTTP_OK
        /\ Absent(table, reqs[d].id)

\* C18: when two update_user requests of one id are the requests in flight
\* and both were answered 200, the stored record is the body of one of them.
C18_NoFieldMix ==
    \A a, b \in Reqs :
        (/\ a # b /\ Started = {a, b}
         /\ reqs[a].op = "update" /\ reqs[b].op = "update"
         /\ reqs[a].id = reqs[b].id
         /\ Answered(a) /\ reqs[a].status = HTTP_OK
         /\ Answered(b) /\ reqs[b].status = HTTP_OK) =>
            QueryFirst(table, reqs[a].id) \in {reqs[a].user, reqs[b].user}

====
